---- MODULE Spec2Model ----
(***************************************************************************)
(* State-machine model of the CST816S touch-controller driver              *)
(* (src/CST816S.cpp).                                                      *)
(*                                                                         *)
(* Two contexts run on one core: the polling context (the host calling the *)
(* driver's methods) and the interrupt context (handleISR, bound to the    *)
(* touch line by begin()).  pc is the source line the polling context will *)
(* execute next (0: no driver method is running); isrPc is the same for    *)
(* the interrupt context.  While the handler runs (isrPc # 0) the polling  *)
(* context is suspended; the handler may start between any two statements  *)
(* of the polling context.                                                 *)
(*                                                                         *)
(* The bus (Wire), the pins and the delay primitive are the environment:   *)
(* every call the driver makes to them is appended to log, the trace of    *)
(* the driver method that is running or that ran last.                     *)
(***************************************************************************)
EXTENDS Integers, Sequences, FiniteSets, TLC

VARIABLES
    pins,               \* _sda, _scl, _rst, _irq
    _event_available,   \* the pending flag
    userISR,            \* the attached callback, 0 for an empty std::function
    data,               \* the TouchEvent (data_struct)
    irqMode,            \* edge mode handleISR is attached with, 0: not attached
    pc,                 \* polling context: next source line, 0 when idle
    isrPc,              \* interrupt context: next source line, 0 when idle
    data_raw,           \* read_touch's local buffer, <<>> outside read_touch
    lastOp,             \* the driver method running or run last
    arg,                \* its argument (0 when it has none)
    log,                \* environment calls made by lastOp so far
    ret,                \* what lastOp returned to its caller
    entry,              \* history: edgesSinceTrue when available() was
                        \* called, 0 for every other method
    edgesSinceTrue,     \* history: handler runs since construction or since
                        \* the flag was last cleared by available()
    lastDecoded,        \* history: the 6 bytes of data_raw that read_touch
                        \* decoded last, whether or not the read stored them
    lastAttached,       \* history: argument of the last attachUserInterrupt
    probed,             \* history: some begin() has completed its reset
                        \* sequence and both version reads
    isrLog,             \* what the running handler has done so far
    i2cRet,             \* history: what the last i2c_read or i2c_write of
                        \* lastOp returned to its caller (0 before any)
    prevFailed,         \* history: the available() call before the one
                        \* running or run last had a failed decode read
    unserved            \* history: handleISR has set the flag and no decode
                        \* read has started since

vars == << pins, _event_available, userISR, data, irqMode, pc, isrPc,
           data_raw, lastOp, arg, log, ret, entry, edgesSinceTrue,
           lastDecoded, lastAttached, probed, isrLog, i2cRet, prevFailed,
           unserved >>

----------------------------------------------------------------------------
(* Bounds of the model *)

\* touch packets the chip may deliver
NumPackets == 2
\* Wire.endTransmission returns 0..MaxStatus
MaxStatus == 1
\* edgesSinceTrue saturates here
MaxEdges == 2
\* seconds within this distance of 1 and of 255 are tried
SecondsSlack == 2

----------------------------------------------------------------------------
(* Environment: pins, levels, the bytes the chip answers with *)

HIGH == 1
LOW == 0

Min(a, b) == IF a < b THEN a ELSE b
Max(a, b) == IF a > b THEN a ELSE b

PinSets == { [sda |-> 21, scl |-> 22, rst |-> 5, irq |-> 4] }

EdgeModes == {1, 2}              \* RISING, FALLING

Statuses == 0..MaxStatus

Callbacks == {0, 1, 2}           \* 0: the empty callback

MaskInputs == {0, 1, 16, 255}

SecondsInputs ==
    ((0 - SecondsSlack)..(1 + SecondsSlack))
        \cup ((255 - SecondsSlack)..(255 + SecondsSlack)) \cup {100, 300}

\* The 6 bytes of register 0x01
PacketOf(i) ==
    CASE i = 1 -> << 11, 1, 129, 44, 0, 240 >>
      [] i = 2 -> << 1, 0, 79, 255, 255, 255 >>
      [] i = 3 -> << 255, 2, 195, 0, 49, 7 >>
      [] OTHER -> [j \in 1..6 |-> (i * 89 + j * 53 + i * j * 7) % 256]

\* What the 8 bytes of data_raw may hold before anything is stored in them
Garbage ==
    { << 165, 90, 255, 16, 126, 1, 0, 0 >>,
      << 12, 3, 64, 7, 241, 9, 255, 255 >> }

\* What the chip answers for registers 0x15 (1 byte) and 0xA7 (3 bytes)
ChipFirmware == [version |-> 181, info |-> << 16, 2, 254 >>]

----------------------------------------------------------------------------
(* The trace of environment calls *)

\* Which context is executing
Ctx == IF isrPc # 0 THEN "isr" ELSE "poll"

Ev(op, a, b) == [ctx |-> Ctx, op |-> op, a |-> a, b |-> b]

\* A trace without its context tags
Untag(l) == [i \in DOMAIN l |-> << l[i].op, l[i].a, l[i].b >>]

----------------------------------------------------------------------------
(* Register transport *)

\* Stores bytes[1..length] at the front of buf
Store(buf, bytes, length) ==
    [i \in DOMAIN buf |-> IF i <= length THEN bytes[i] ELSE buf[i]]

\* i2c_read as it would be without the early return of line 300
i2c_read_noEarlyReturn(reg_addr, reg_data, length, status, bytes) ==
    [ret |-> IF status # 0 THEN 255 ELSE 0,
     buf |-> Store(reg_data, bytes, length),
     bus |-> << Ev("beginTransmission", 0, 0),
                Ev("write", reg_addr, 0),
                Ev("endTransmission", 1, status),
                Ev("requestFrom", length, 1) >>
                 \o [i \in 1..length |-> Ev("read", bytes[i], 0)]]

\* i2c_read: status is what Wire.endTransmission returns, bytes what
\* Wire.read returns; reg_data is the destination buffer.
i2c_read(reg_addr, reg_data, length, status, bytes) ==
    LET addrPhase == << Ev("beginTransmission", 0, 0),
                        Ev("write", reg_addr, 0),
                        Ev("endTransmission", 1, status) >>
    IN  IF status # 0
        THEN [ret |-> 255, buf |-> reg_data, bus |-> addrPhase]
        ELSE [ret |-> 0,
              buf |-> Store(reg_data, bytes, length),
              bus |-> addrPhase \o << Ev("requestFrom", length, 1) >>
                          \o [i \in 1..length |-> Ev("read", bytes[i], 0)]]

\* i2c_write: status is what Wire.endTransmission returns
i2c_write(reg_addr, reg_data, length, status) ==
    [ret |-> IF status # 0 THEN 255 ELSE 0,
     bus |-> << Ev("beginTransmission", 0, 0), Ev("write", reg_addr, 0) >>
                 \o [i \in 1..length |-> Ev("write", reg_data[i], 0)]
                 \o << Ev("endTransmission", 1, status) >>]

----------------------------------------------------------------------------
(* State after construction *)

\* Members the class declares; the constructor body does not assign them.
DeclaredEventAvailable == FALSE

DeclaredData ==
    [gestureID |-> 0, points |-> 0, event |-> 0, x |-> 0, y |-> 0,
     version |-> 0, versionInfo |-> << 0, 0, 0 >>]

Init ==
    /\ pins \in PinSets
    /\ _event_available = DeclaredEventAvailable
    /\ userISR = 0
    /\ data = DeclaredData
    /\ irqMode = 0
    /\ pc = 0
    /\ isrPc = 0
    /\ data_raw = << >>
    /\ lastOp = "CST816S"
    /\ arg = 0
    /\ log = << >>
    /\ ret = "void"
    /\ entry = 0
    /\ edgesSinceTrue = 0
    /\ lastDecoded = << 0, 0, 0, 0, 0, 0 >>
    /\ lastAttached = 0
    /\ probed = FALSE
    /\ isrLog = << >>
    /\ i2cRet = 0
    /\ prevFailed = FALSE
    /\ unserved = FALSE

\* Variables no driver method of the polling context touches
isrVars == << isrPc, isrLog, edgesSinceTrue >>

\* The host calls a driver method: op with argument a.  l is the trace after
\* the method's first statement, r its result so far, next the line the
\* polling context continues at (0: the method has returned).  The host
\* calls a method only after it has taken the result of the previous one.
Call(op, a, l, r, next) ==
    /\ pc = 0
    /\ lastOp = "host"
    /\ isrPc = 0
    /\ lastOp' = op
    /\ arg' = a
    /\ log' = l
    /\ ret' = r
    /\ pc' = next
    /\ entry' = IF op = "available" THEN edgesSinceTrue ELSE 0

\* Driver state a configuration method leaves alone
drvVars == << pins, _event_available, userISR, data, irqMode,
              data_raw, lastDecoded, lastAttached, probed >>

----------------------------------------------------------------------------
(* Device configuration: src/CST816S.cpp lines 82-184 *)

\* The bus traffic of set_motion_mask(mask): one write to 0xEC
set_motion_mask_bus(mask, status) == i2c_write(236, << mask >>, 1, status).bus

\* The bus traffic of set_irq_control(mask): one write to 0xFA
set_irq_control_bus(mask, status) == i2c_write(250, << mask >>, 1, status).bus

\* enable_double_click() as it would be if it also routed the interrupt
enable_double_click_alsoIrq ==
    \E status \in Statuses :
        LET enableDoubleTap == 1
        IN  /\ Call("enable_double_click", 0,
                    i2c_write(236, << enableDoubleTap >>, 1, status).bus
                        \o set_irq_control_bus(16, status), "void", 0)
            /\ i2cRet' = i2c_write(250, << 16 >>, 1, status).ret
            /\ UNCHANGED << drvVars, isrVars,
                            prevFailed, unserved >>

enable_double_click ==
    \E status \in Statuses :
        LET enableDoubleTap == 1
        IN  /\ Call("enable_double_click", 0,
                    i2c_write(236, << enableDoubleTap >>, 1, status).bus, "void", 0)
            /\ i2cRet' = i2c_write(236, << enableDoubleTap >>, 1, status).ret
            /\ UNCHANGED << drvVars, isrVars,
                    prevFailed, unserved >>

set_motion_mask ==
    \E mask \in MaskInputs, status \in Statuses :
        /\ Call("set_motion_mask", mask, set_motion_mask_bus(mask, status), "void", 0)
        /\ i2cRet' = i2c_write(236, << mask >>, 1, status).ret
        /\ UNCHANGED << drvVars, isrVars,
                    prevFailed, unserved >>

set_irq_control ==
    \E mask \in MaskInputs, status \in Statuses :
        /\ Call("set_irq_control", mask, set_irq_control_bus(mask, status), "void", 0)
        /\ i2cRet' = i2c_write(250, << mask >>, 1, status).ret
        /\ UNCHANGED << drvVars, isrVars,
                    prevFailed, unserved >>

\* enable_double_click_interrupt_only() as it would be if it gave up after a
\* failed first write
enable_double_click_interrupt_only_stops ==
    \E status \in Statuses :
        /\ Call("enable_double_click_interrupt_only", 0,
                set_motion_mask_bus(1, status),
                IF status # 0 THEN "void" ELSE "running",
                IF status # 0 THEN 0 ELSE 145)
        /\ i2cRet' = i2c_write(236, << 1 >>, 1, status).ret
        /\ UNCHANGED << drvVars, isrVars,
                    prevFailed, unserved >>

\* Line 142: the call and set_motion_mask(0x01)
enable_double_click_interrupt_only ==
    \E status \in Statuses :
        /\ Call("enable_double_click_interrupt_only", 0,
                set_motion_mask_bus(1, status), "running", 145)
        /\ i2cRet' = i2c_write(236, << 1 >>, 1, status).ret
        /\ UNCHANGED << drvVars, isrVars,
                    prevFailed, unserved >>

\* Line 145: set_irq_control(0x10), then the method returns
enable_double_click_interrupt_only_145 ==
    /\ pc = 145
    /\ isrPc = 0
    /\ \E status \in Statuses :
        /\ log' = log \o set_irq_control_bus(16, status)
        /\ i2cRet' = i2c_write(250, << 16 >>, 1, status).ret
    /\ pc' = 0
    /\ ret' = "void"
    /\ UNCHANGED << drvVars, isrVars, lastOp, arg, entry,
                    prevFailed, unserved >>

disable_auto_sleep ==
    \E status \in Statuses :
        LET disableAutoSleep == 254
        IN  /\ Call("disable_auto_sleep", 0,
                    i2c_write(254, << disableAutoSleep >>, 1, status).bus, "void", 0)
            /\ i2cRet' = i2c_write(254, << disableAutoSleep >>, 1, status).ret
            /\ UNCHANGED << drvVars, isrVars,
                    prevFailed, unserved >>

enable_auto_sleep ==
    \E status \in Statuses :
        LET enableAutoSleep == 0
        IN  /\ Call("enable_auto_sleep", 0,
                    i2c_write(254, << enableAutoSleep >>, 1, status).bus, "void", 0)
            /\ i2cRet' = i2c_write(254, << enableAutoSleep >>, 1, status).ret
            /\ UNCHANGED << drvVars, isrVars,
                    prevFailed, unserved >>

\* static_cast<byte>(v) for an int v
static_cast_byte(v) == v % 256

\* Lines 173-180 as they would be with the lower test written seconds < 0
clamp_seconds_below0(seconds) ==
    IF seconds < 0 THEN 1
    ELSE IF seconds > 255 THEN 255
    ELSE seconds

\* Lines 173-180: the value of seconds after the two tests
clamp_seconds(seconds) ==
    IF seconds < 1 THEN 1
    ELSE IF seconds > 255 THEN 255
    ELSE seconds

set_auto_sleep_time ==
    \E seconds \in SecondsInputs, status \in Statuses :
        LET sleepTime == static_cast_byte(clamp_seconds(seconds))
        IN  /\ Call("set_auto_sleep_time", seconds,
                    i2c_write(249, << sleepTime >>, 1, status).bus, "void", 0)
            /\ i2cRet' = i2c_write(249, << sleepTime >>, 1, status).ret
            /\ UNCHANGED << drvVars, isrVars,
                    prevFailed, unserved >>

----------------------------------------------------------------------------
(* Statements that only drive a pin or wait: begin 195-203, 206; sleep 241-243 *)

PinDelayLines == {195, 196, 198, 199, 200, 201, 202, 203, 206, 241, 242, 243}

Stmt(line) ==
    CASE line = 195 -> Ev("pinMode.INPUT_PULLUP", pins.irq, 0)
      [] line = 196 -> Ev("pinMode.OUTPUT", pins.rst, 0)
      [] line = 198 -> Ev("digitalWrite", pins.rst, HIGH)
      [] line = 199 -> Ev("delay", 50, 0)
      [] line = 200 -> Ev("digitalWrite", pins.rst, LOW)
      [] line = 201 -> Ev("delay", 5, 0)
      [] line = 202 -> Ev("digitalWrite", pins.rst, HIGH)
      [] line = 203 -> Ev("delay", 50, 0)
      [] line = 206 -> Ev("delay", 5, 0)
      [] line = 241 -> Ev("delay", 5, 0)
      [] line = 242 -> Ev("digitalWrite", pins.rst, HIGH)
      [] line = 243 -> Ev("delay", 50, 0)

\* The statement executed after the one at line
NextLine(line) ==
    CASE line = 196 -> 198
      [] line = 203 -> 205
      [] line = 206 -> 207
      [] line = 243 -> 245
      [] OTHER -> line + 1

pin_delay_step ==
    /\ pc \in PinDelayLines
    /\ isrPc = 0
    /\ log' = Append(log, Stmt(pc))
    /\ pc' = NextLine(pc)
    /\ UNCHANGED << drvVars, isrVars, lastOp, arg, ret, entry,
                    i2cRet, prevFailed, unserved >>

----------------------------------------------------------------------------
(* begin: lines 191-210 *)

\* begin() as it would be if it attached the handler before the reset
begin_armsFirst ==
    \E interrupt \in EdgeModes :
        /\ Call("begin", interrupt, << Ev("Wire.begin", pins.sda, pins.scl) >>,
                "running", 195)
        /\ irqMode' = interrupt
        /\ UNCHANGED << pins, _event_available, userISR, data, data_raw,
                        lastDecoded, lastAttached, probed, isrVars,
                    i2cRet, prevFailed, unserved >>

\* Line 193: the call and Wire.begin
begin ==
    \E interrupt \in EdgeModes :
        /\ Call("begin", interrupt, << Ev("Wire.begin", pins.sda, pins.scl) >>,
                "running", 195)
        /\ UNCHANGED << drvVars, isrVars,
                    i2cRet, prevFailed, unserved >>

\* Line 205: i2c_read(CST816S_ADDRESS, 0x15, &data.version, 1)
begin_205 ==
    /\ pc = 205
    /\ isrPc = 0
    /\ \E status \in Statuses :
        LET r == i2c_read(21, << data.version >>, 1, status,
                          << ChipFirmware.version >>)
        IN  /\ data' = [data EXCEPT !.version = r.buf[1]]
            /\ log' = log \o r.bus
            /\ i2cRet' = r.ret
    /\ pc' = 206
    /\ UNCHANGED << pins, _event_available, userISR, irqMode, data_raw,
                    lastDecoded, lastAttached, probed, isrVars, lastOp, arg, ret, entry,
                    prevFailed, unserved >>

\* Line 207: i2c_read(CST816S_ADDRESS, 0xA7, data.versionInfo, 3)
begin_207 ==
    /\ pc = 207
    /\ isrPc = 0
    /\ \E status \in Statuses :
        LET r == i2c_read(167, data.versionInfo, 3, status, ChipFirmware.info)
        IN  /\ data' = [data EXCEPT !.versionInfo = r.buf]
            /\ log' = log \o r.bus
            /\ i2cRet' = r.ret
    /\ pc' = 209
    /\ probed' = TRUE
    /\ UNCHANGED << pins, _event_available, userISR, irqMode, data_raw,
                    lastDecoded, lastAttached, isrVars, lastOp, arg, ret, entry,
                    prevFailed, unserved >>

\* Line 209: attachInterrupt(_irq, handleISR, interrupt), then begin returns
begin_209 ==
    /\ pc = 209
    /\ isrPc = 0
    /\ irqMode' = arg
    /\ log' = Append(log, Ev("attachInterrupt", pins.irq, arg))
    /\ pc' = 0
    /\ ret' = "void"
    /\ UNCHANGED << pins, _event_available, userISR, data, data_raw,
                    lastDecoded, lastAttached, probed, isrVars, lastOp, arg, entry,
                    i2cRet, prevFailed, unserved >>

----------------------------------------------------------------------------
(* sleep: lines 238-246 *)

\* sleep() as it would be if the standby command preceded the reset pulse
sleep_standbyFirst ==
    \E status \in Statuses :
        /\ Call("sleep", 0,
                i2c_write(165, << 3 >>, 1, status).bus
                    \o << Ev("digitalWrite", pins.rst, LOW) >>, "running", 241)
        /\ UNCHANGED << drvVars, isrVars,
                        i2cRet, prevFailed, unserved >>

\* Line 240: the call and digitalWrite(_rst, LOW)
sleep ==
    /\ Call("sleep", 0, << Ev("digitalWrite", pins.rst, LOW) >>, "running", 241)
    /\ UNCHANGED << drvVars, isrVars,
                    i2cRet, prevFailed, unserved >>

\* Lines 244-245 as they would be if putting the chip to sleep also dropped
\* a pending event
sleep_245_dropsEvent ==
    /\ pc = 245
    /\ isrPc = 0
    /\ \E status \in Statuses :
        LET w == i2c_write(165, << 3 >>, 1, status)
        IN  /\ log' = log \o w.bus
            /\ i2cRet' = w.ret
    /\ _event_available' = FALSE
    /\ pc' = 0
    /\ ret' = "void"
    /\ UNCHANGED << pins, userISR, data, irqMode, data_raw, lastDecoded,
                    lastAttached, probed, isrVars, lastOp, arg, entry,
                    prevFailed, unserved >>

\* Lines 244-245: the standby write, then sleep returns
sleep_245 ==
    /\ pc = 245
    /\ isrPc = 0
    /\ \E status \in Statuses :
        LET standby_value == 3
            w == i2c_write(165, << standby_value >>, 1, status)
        IN  /\ log' = log \o w.bus
            /\ i2cRet' = w.ret
    /\ pc' = 0
    /\ ret' = "void"
    /\ UNCHANGED << drvVars, isrVars, lastOp, arg, entry,
                    prevFailed, unserved >>

----------------------------------------------------------------------------
(* The interrupt-to-event bridge: lines 53-76, 216-233 *)

\* Lines 58-62 as they would be if line 62 took its high bits from data_raw[2]
ReadTouchAssign_yFromX(line, d, raw) ==
    CASE line = 58 -> [d EXCEPT !.gestureID = raw[1]]
      [] line = 59 -> [d EXCEPT !.points = raw[2]]
      [] line = 60 -> [d EXCEPT !.event = raw[3] \div 64]
      [] line = 61 -> [d EXCEPT !.x = ((raw[3] % 16) * 256) + raw[4]]
      [] line = 62 -> [d EXCEPT !.y = ((raw[3] % 16) * 256) + raw[6]]

\* Lines 58-62 of read_touch, one assignment each
ReadTouchAssign(line, d, raw) ==
    CASE line = 58 -> [d EXCEPT !.gestureID = raw[1]]
      [] line = 59 -> [d EXCEPT !.points = raw[2]]
      [] line = 60 -> [d EXCEPT !.event = raw[3] \div 64]
      [] line = 61 -> [d EXCEPT !.x = ((raw[3] % 16) * 256) + raw[4]]
      [] line = 62 -> [d EXCEPT !.y = ((raw[5] % 16) * 256) + raw[6]]

\* Whether the trace holds a transfer that Wire.endTransmission reported failed
TransportFailed(l) ==
    \E i \in DOMAIN l : l[i].op = "endTransmission" /\ l[i].b # 0

\* available() as it would be without the test of line 226
available_untested ==
    /\ Call("available", 0, << >>, "running", 56)
    /\ data_raw' \in Garbage
    /\ UNCHANGED << pins, _event_available, userISR, data, irqMode,
                    lastDecoded, lastAttached, probed, isrVars,
                    i2cRet, prevFailed, unserved >>

\* Line 226: the call and the test of the flag.  When the flag is set,
\* read_touch is entered and its buffer data_raw is declared, uninitialised.
available ==
    IF _event_available
    THEN /\ Call("available", 0, << >>, "running", 56)
         /\ data_raw' \in Garbage
         /\ UNCHANGED << pins, _event_available, userISR, data, irqMode,
                         lastDecoded, lastAttached, probed, isrVars,
                    i2cRet, prevFailed, unserved >>
    ELSE /\ Call("available", 0, << >>, "false", 0)
         /\ UNCHANGED << drvVars, isrVars,
                    i2cRet, prevFailed, unserved >>

\* Line 56: i2c_read(CST816S_ADDRESS, 0x01, data_raw, 6), result ignored
read_touch_56 ==
    /\ pc = 56
    /\ isrPc = 0
    /\ \E status \in Statuses, p \in 1..NumPackets :
        LET r == i2c_read(1, data_raw, 6, status, PacketOf(p))
        IN  /\ data_raw' = r.buf
            /\ log' = log \o r.bus
            /\ i2cRet' = r.ret
    /\ pc' = 58
    /\ unserved' = FALSE
    /\ UNCHANGED << pins, _event_available, userISR, data, irqMode,
                    lastDecoded, lastAttached, probed, isrVars, lastOp, arg, ret, entry,
                    prevFailed >>

\* Lines 58-62: the fields of data are assigned one after the other
read_touch_assign ==
    /\ pc \in 58..62
    /\ isrPc = 0
    /\ data' = ReadTouchAssign(pc, data, data_raw)
    /\ pc' = IF pc = 62 THEN 229 ELSE pc + 1
    /\ lastDecoded' = IF pc = 62 THEN SubSeq(data_raw, 1, 6) ELSE lastDecoded
    /\ UNCHANGED << pins, _event_available, userISR, irqMode, data_raw,
                    lastAttached, probed, isrVars, lastOp, arg, log, ret, entry,
                    i2cRet, prevFailed, unserved >>

\* Lines 229-230 as they would be if the flag were left set
available_229_keepsFlag ==
    /\ pc = 229
    /\ isrPc = 0
    /\ edgesSinceTrue' = 0
    /\ data_raw' = << >>
    /\ ret' = "true"
    /\ pc' = 0
    /\ UNCHANGED << pins, _event_available, userISR, data, irqMode, lastDecoded,
                    lastAttached, probed, isrPc, isrLog, lastOp, arg, log, entry,
                    i2cRet, prevFailed, unserved >>

\* Lines 229-230 as they would be if a failed decode read left the event
\* pending for a retry
available_229_retriesFailed ==
    /\ pc = 229
    /\ isrPc = 0
    /\ _event_available' = TransportFailed(log)
    /\ edgesSinceTrue' = 0
    /\ data_raw' = << >>
    /\ ret' = "true"
    /\ pc' = 0
    /\ UNCHANGED << pins, userISR, data, irqMode, lastDecoded,
                    lastAttached, probed, isrPc, isrLog, lastOp, arg, log, entry,
                    i2cRet, prevFailed, unserved >>

\* Lines 229-230: the flag is cleared and available returns true
available_229 ==
    /\ pc = 229
    /\ isrPc = 0
    /\ _event_available' = FALSE
    /\ edgesSinceTrue' = 0
    /\ data_raw' = << >>
    /\ ret' = "true"
    /\ pc' = 0
    /\ UNCHANGED << pins, userISR, data, irqMode, lastDecoded,
                    lastAttached, probed, isrPc, isrLog, lastOp, arg, log, entry,
                    i2cRet, prevFailed, unserved >>

\* Line 218, first half: the call; the assignment to userISR has begun
attachUserInterrupt ==
    \E callback \in Callbacks :
        /\ Call("attachUserInterrupt", callback, << >>, "running", 218)
        /\ UNCHANGED << drvVars, isrVars,
                    i2cRet, prevFailed, unserved >>

\* Line 218 as it would be if a callback already set were kept
attachUserInterrupt_218_keepsFirst ==
    /\ pc = 218
    /\ isrPc = 0
    /\ userISR' = IF userISR # 0 THEN userISR ELSE arg
    /\ lastAttached' = arg
    /\ pc' = 0
    /\ ret' = "void"
    /\ UNCHANGED << pins, _event_available, data, irqMode, data_raw,
                    lastDecoded, probed, isrVars, lastOp, arg, log, entry,
                    i2cRet, prevFailed, unserved >>

\* Line 218, second half: the assignment is complete
attachUserInterrupt_218 ==
    /\ pc = 218
    /\ isrPc = 0
    /\ userISR' = arg
    /\ lastAttached' = arg
    /\ pc' = 0
    /\ ret' = "void"
    /\ UNCHANGED << pins, _event_available, data, irqMode, data_raw,
                    lastDecoded, probed, isrVars, lastOp, arg, log, entry,
                    i2cRet, prevFailed, unserved >>

\* What the interrupt context leaves alone
pollVars == << pins, userISR, data, irqMode, pc, data_raw, lastOp, arg, log, ret,
               entry, lastDecoded, lastAttached, probed, i2cRet, prevFailed >>

\* An edge on the touch line: the platform enters the attached handler
handleISR ==
    /\ irqMode # 0
    /\ isrPc = 0
    /\ isrPc' = 70
    /\ isrLog' = << >>
    /\ UNCHANGED << pollVars, _event_available, edgesSinceTrue, unserved >>

\* Line 70 as it would be if the handler fetched the packet itself
handleISR_70_reads ==
    /\ isrPc = 70
    /\ _event_available' = TRUE
    /\ isrLog' = Append(isrLog, [op |-> "set", cb |-> 0, flag |-> TRUE])
    /\ edgesSinceTrue' = Min(edgesSinceTrue + 1, MaxEdges)
    /\ isrPc' = 73
    /\ \E status \in Statuses, p \in 1..NumPackets :
        log' = log \o i2c_read(1, PacketOf(p), 6, status, PacketOf(p)).bus
    /\ unserved' = TRUE
    /\ UNCHANGED << pins, userISR, data, irqMode, pc, data_raw, lastOp, arg, ret,
                    entry, lastDecoded, lastAttached, probed,
                    i2cRet, prevFailed >>

\* Line 70: _event_available = true
handleISR_70 ==
    /\ isrPc = 70
    /\ _event_available' = TRUE
    /\ isrLog' = Append(isrLog, [op |-> "set", cb |-> 0, flag |-> TRUE])
    /\ edgesSinceTrue' = Min(edgesSinceTrue + 1, MaxEdges)
    /\ isrPc' = 73
    /\ unserved' = TRUE
    /\ UNCHANGED pollVars

\* The callbacks the handler may find in userISR: the stored one, or, when
\* the handler preempts the unsynchronised assignment of line 218, also the
\* one being stored.
Callee == IF pc = 218 THEN {userISR, arg} ELSE {userISR}

\* Lines 73-75: the user callback is called if one is set
handleISR_73 ==
    /\ isrPc = 73
    /\ \E callee \in Callee :
        isrLog' = IF callee # 0
                  THEN Append(isrLog, [op |-> "userISR", cb |-> callee,
                                       flag |-> _event_available])
                  ELSE isrLog
    /\ isrPc' = 76
    /\ UNCHANGED << pollVars, _event_available, edgesSinceTrue, unserved >>

\* Line 76: the handler returns and the polling context resumes
handleISR_76 ==
    /\ isrPc = 76
    /\ isrPc' = 0
    /\ isrLog' = << >>
    /\ UNCHANGED << pollVars, _event_available, edgesSinceTrue, unserved >>

----------------------------------------------------------------------------
(* Gesture labelling: lines 251-283 *)

NONE == 0
SWIPE_UP == 1
SWIPE_DOWN == 2
SWIPE_LEFT == 3
SWIPE_RIGHT == 4
SINGLE_CLICK == 5
DOUBLE_CLICK == 11
LONG_PRESS == 12

\* gesture() as it would be if the default label were that of NONE
GestureLabel_defaultNone(gestureID) ==
    CASE gestureID = SWIPE_DOWN -> "SWIPE DOWN"
      [] gestureID = SWIPE_UP -> "SWIPE UP"
      [] gestureID = SWIPE_LEFT -> "SWIPE LEFT"
      [] gestureID = SWIPE_RIGHT -> "SWIPE RIGHT"
      [] gestureID = SINGLE_CLICK -> "SINGLE CLICK"
      [] gestureID = DOUBLE_CLICK -> "DOUBLE CLICK"
      [] gestureID = LONG_PRESS -> "LONG PRESS"
      [] OTHER -> "NONE"

GestureLabel(gestureID) ==
    CASE gestureID = NONE -> "NONE"
      [] gestureID = SWIPE_DOWN -> "SWIPE DOWN"
      [] gestureID = SWIPE_UP -> "SWIPE UP"
      [] gestureID = SWIPE_LEFT -> "SWIPE LEFT"
      [] gestureID = SWIPE_RIGHT -> "SWIPE RIGHT"
      [] gestureID = SINGLE_CLICK -> "SINGLE CLICK"
      [] gestureID = DOUBLE_CLICK -> "DOUBLE CLICK"
      [] gestureID = LONG_PRESS -> "LONG PRESS"
      [] OTHER -> "UNKNOWN"

gesture ==
    /\ Call("gesture", 0, << >>, GestureLabel(data.gestureID), 0)
    /\ UNCHANGED << drvVars, isrVars,
                    i2cRet, prevFailed, unserved >>

----------------------------------------------------------------------------
(* The host *)

\* The method has returned: the host takes its result and goes on
host ==
    /\ pc = 0
    /\ lastOp # "host"
    /\ isrPc = 0
    /\ lastOp' = "host"
    /\ arg' = 0
    /\ log' = << >>
    /\ ret' = "void"
    /\ entry' = 0
    /\ i2cRet' = 0
    /\ prevFailed' = IF lastOp = "available"
                     THEN ret = "true" /\ TransportFailed(log)
                     ELSE prevFailed
    /\ UNCHANGED << drvVars, isrVars, pc, unserved >>

----------------------------------------------------------------------------
(* The system *)

Next ==
    \/ begin
    \/ pin_delay_step
    \/ begin_205
    \/ begin_207
    \/ begin_209
    \/ enable_double_click
    \/ set_motion_mask
    \/ set_irq_control
    \/ enable_double_click_interrupt_only
    \/ enable_double_click_interrupt_only_145
    \/ disable_auto_sleep
    \/ enable_auto_sleep
    \/ set_auto_sleep_time
    \/ sleep
    \/ sleep_245
    \/ available
    \/ read_touch_56
    \/ read_touch_assign
    \/ available_229
    \/ attachUserInterrupt
    \/ attachUserInterrupt_218
    \/ gesture
    \/ host
    \/ handleISR
    \/ handleISR_70
    \/ handleISR_73
    \/ handleISR_76

Spec == Init /\ [][Next]_vars

----------------------------------------------------------------------------
(* The decoder over a wide range of packets.                                *)
(* The polling context is inside available(), the read of line 56 has just  *)
(* succeeded and stored the packet; lines 58-62, the return of available()  *)
(* and gesture() follow.                                                    *)

\* Values of the packet's bytes, by position
GestureBytes == {0, 1, 2, 3, 4, 5, 6, 11, 12, 255}
PointBytes == {0, 1}
StatusBytes == {0, 79, 129, 195, 255}
XLowBytes == {0, 44, 255}
YHighBytes == {0, 241, 255}
YLowBytes == {0, 7, 255}

SamplePackets ==
    {<< g, n, s, xl, yh, yl >> : g \in GestureBytes, n \in PointBytes,
                                 s \in StatusBytes, xl \in XLowBytes,
                                 yh \in YHighBytes, yl \in YLowBytes}

\* The TouchEvent before the decode: after begin() alone, or after begin()
\* and an earlier decode
EarlierData ==
    LET fresh == [DeclaredData EXCEPT !.version = ChipFirmware.version,
                                      !.versionInfo = ChipFirmware.info]
    IN  {fresh, [fresh EXCEPT !.gestureID = 5, !.points = 1, !.event = 2,
                              !.x = 300, !.y = 77]}

InitDecode ==
    /\ pins \in PinSets
    /\ _event_available = TRUE
    /\ userISR = 0
    /\ data \in EarlierData
    /\ irqMode \in EdgeModes
    /\ pc = 58
    /\ isrPc = 0
    /\ lastOp = "available"
    /\ arg = 0
    /\ ret = "running"
    /\ entry = 1
    /\ edgesSinceTrue = 1
    /\ lastDecoded = << 0, 0, 0, 0, 0, 0 >>
    /\ lastAttached = 0
    /\ probed = TRUE
    /\ isrLog = << >>
    /\ prevFailed = FALSE
    /\ unserved = FALSE
    /\ \E g \in Garbage, p \in SamplePackets :
        LET r == i2c_read(1, g, 6, 0, p)
        IN  /\ data_raw = r.buf
            /\ log = r.bus
            /\ i2cRet = r.ret

NextDecode ==
    \/ read_touch_assign
    \/ available_229
    \/ gesture
    \/ host

SpecDecode == InitDecode /\ [][NextDecode]_vars

TypeOK ==
    /\ _event_available \in BOOLEAN
    /\ userISR \in Callbacks
    /\ pc \in {0, 56, 145, 205, 207, 209, 218, 229, 245} \cup (58..62) \cup PinDelayLines
    /\ isrPc \in {0, 70, 73, 76}
    /\ edgesSinceTrue \in 0..MaxEdges
    /\ i2cRet \in {0, 255}
    /\ prevFailed \in BOOLEAN
    /\ unserved \in BOOLEAN

----------------------------------------------------------------------------
(* Vocabulary of the properties *)

\* The polling context is in no driver method and lastOp has just returned
Returned(op) == pc = 0 /\ lastOp = op

\* The five decoded fields of a TouchEvent
Five(d) == << d.gestureID, d.points, d.event, d.x, d.y >>

\* The five fields a 6-byte packet decodes to (spec.md, section 3)
DecodeFive(p) ==
    << p[1], p[2], p[3] \div 64, ((p[3] % 16) * 256) + p[4], ((p[5] % 16) * 256) + p[6] >>

\* The bus calls of one single-byte register write
WriteTrace(reg, val, status) ==
    << << "beginTransmission", 0, 0 >>, << "write", reg, 0 >>,
       << "write", val, 0 >>, << "endTransmission", 1, status >> >>

\* The bus calls of one register read that stored bytes (none when it failed)
ReadTrace(reg, bytes, status) ==
    << << "beginTransmission", 0, 0 >>, << "write", reg, 0 >>,
       << "endTransmission", 1, status >> >>
    \o (IF status # 0 THEN << >>
        ELSE << << "requestFrom", Len(bytes), 1 >> >>
             \o [i \in 1..Len(bytes) |-> << "read", bytes[i], 0 >>])

\* Number of bus transactions opened in a trace
Transactions(l) == Cardinality({i \in DOMAIN l : l[i].op = "beginTransmission"})

----------------------------------------------------------------------------
(* C1 *)

\* C1: a call of available() made when the handler has not run since
\* construction or since available() last cleared the flag returns false at
\* once and makes no call to the bus, the pins or the delay primitive.
C1_IdlePollReturnsFalse ==
    (lastOp = "available" /\ entry = 0)
        => (pc = 0 /\ ret = "false" /\ log = << >>)

\* an idle poll that follows a successful one
C1_Witness ==
    /\ Returned("available")
    /\ entry = 0
    /\ ret = "false"
    /\ lastDecoded # << 0, 0, 0, 0, 0, 0 >>

----------------------------------------------------------------------------
(* C2 *)

\* C2: a call of available() made after n >= 1 handler runs opens exactly one
\* bus transaction, the read of 6 bytes from register 0x01, and returns true;
\* and as long as no handler has run since the flag was cleared the flag
\* stays false, so that a poll returning false has made no bus call.
C2_EdgeCoalescing ==
    /\ (Returned("available") /\ entry >= 1)
          => /\ ret = "true"
             /\ Transactions(log) = 1
             /\ \E status \in Statuses, p \in 1..NumPackets :
                   Untag(log) = ReadTrace(1, PacketOf(p), status)
    /\ (edgesSinceTrue = 0) => ~_event_available
    /\ (lastOp = "available" /\ ret = "false") => log = << >>

\* several edges were coalesced into one successful poll
C2_Witness ==
    /\ Returned("available")
    /\ entry = MaxEdges
    /\ ret = "true"
    /\ ~_event_available

----------------------------------------------------------------------------
(* C3 *)

\* C3: no step of an available() call whose register read failed changes any
\* of gestureId, pointCount, eventType, x, y.
C3_FailedDecodeKeepsEvent ==
    [][(lastOp' = "available" /\ TransportFailed(log'))
          => Five(data') = Five(data)]_vars

----------------------------------------------------------------------------
(* C4 *)

\* C4: every call to the bus, the pins or the delay primitive is made by the
\* polling context; the handler does nothing but set the flag and call the
\* user callback.
C4_NoBusInInterruptContext ==
    /\ \A i \in DOMAIN log : log[i].ctx = "poll"
    /\ \A i \in DOMAIN isrLog : isrLog[i].op \in {"set", "userISR"}

\* the handler has preempted a decode whose bus read is done
C4_Witness ==
    /\ isrPc = 76
    /\ pc \in 58..62
    /\ Transactions(log) = 1

----------------------------------------------------------------------------
(* C5 *)

\* Where the TouchEvent can be observed: by the host between driver calls, and
\* by the user callback the handler has called
Observable ==
    \/ pc = 0 /\ isrPc = 0
    \/ isrPc = 76 /\ Len(isrLog) = 2

\* C5: wherever the TouchEvent can be observed, its five decoded fields all
\* come from one buffer content, the one read_touch decoded last.
C5_EventNeverPartial ==
    Observable => Five(data) = DecodeFive(lastDecoded)

----------------------------------------------------------------------------
(* C6 *)

ConfigOps ==
    {"set_motion_mask", "set_irq_control", "enable_double_click",
     "enable_double_click_interrupt_only", "disable_auto_sleep",
     "enable_auto_sleep", "set_auto_sleep_time", "sleep"}

\* C6: a configuration method or available() whose register transfer failed
\* returns a failure result to its caller.
C6_TransportResultPropagated ==
    (pc = 0 /\ lastOp \in ConfigOps \cup {"available"} /\ TransportFailed(log))
        => ret = "TransportError"

----------------------------------------------------------------------------
(* C7 *)

\* The calls begin(interrupt) makes, in order; s1 and s2 are the statuses of
\* the two version reads
BeginTrace(interrupt, s1, s2) ==
    << << "Wire.begin", pins.sda, pins.scl >>,
       << "pinMode.INPUT_PULLUP", pins.irq, 0 >>,
       << "pinMode.OUTPUT", pins.rst, 0 >>,
       << "digitalWrite", pins.rst, 1 >>, << "delay", 50, 0 >>,
       << "digitalWrite", pins.rst, 0 >>, << "delay", 5, 0 >>,
       << "digitalWrite", pins.rst, 1 >>, << "delay", 50, 0 >> >>
    \o ReadTrace(21, << data.version >>, s1)
    \o << << "delay", 5, 0 >> >>
    \o ReadTrace(167, data.versionInfo, s2)
    \o << << "attachInterrupt", pins.irq, interrupt >> >>

\* C7: begin() has made exactly these calls when it returns: the reset
\* sequence high, 50 ms, low, 5 ms, high, 50 ms; the 1-byte read of 0x15 into
\* version; 5 ms; the 3-byte read of 0xA7 into versionInfo; attachInterrupt
\* last.  The handler does not run, and the flag is not set, before the reset
\* sequence and both reads of some begin() are done.
C7_BeginOrder ==
    /\ Returned("begin")
          => \E s1, s2 \in Statuses : Untag(log) = BeginTrace(arg, s1, s2)
    /\ (_event_available \/ isrPc # 0 \/ irqMode # 0) => probed

\* begin() has returned with both version reads successful
C7_Witness ==
    /\ Returned("begin")
    /\ data.version = ChipFirmware.version
    /\ data.versionInfo = ChipFirmware.info
    /\ Len(log) = 23

----------------------------------------------------------------------------
(* C8 *)

\* C8: the handler sets the flag first; then, unless attachUserInterrupt is
\* in the middle of its assignment, it calls the callback passed to the last
\* attachUserInterrupt exactly once and calls nothing if that was the empty
\* callback or if none was ever attached.  The callback sees the flag set.
C8_CallbackLastWriteWins ==
    [][/\ (isrPc = 70 /\ isrPc' # 70)
            => (_event_available' /\ isrPc' = 73 /\ Len(isrLog') = 1
                /\ isrLog'[1].op = "set")
       /\ (isrPc = 73 /\ isrPc' # 73 /\ pc # 218)
            => /\ _event_available
               /\ isrLog' = isrLog \o
                     (IF lastAttached # 0
                      THEN << [op |-> "userISR", cb |-> lastAttached, flag |-> TRUE] >>
                      ELSE << >>)]_vars

\* the handler has called a callback that replaced an earlier one
C8_Witness ==
    /\ isrPc = 76
    /\ Len(isrLog) = 2
    /\ isrLog[2].cb = 2
    /\ lastAttached = 2
    /\ pc = 0

----------------------------------------------------------------------------
(* C9 *)

\* C9: enable_double_click_interrupt_only() makes exactly two register
\* writes, 0x01 to 0xEC and then 0x10 to 0xFA, whatever the status of the
\* first.
C9_DoubleClickOnlyTwoWrites ==
    Returned("enable_double_click_interrupt_only")
        => \E s1, s2 \in Statuses :
              Untag(log) = WriteTrace(236, 1, s1) \o WriteTrace(250, 16, s2)

\* both writes were made although the first failed
C9_Witness ==
    /\ Returned("enable_double_click_interrupt_only")
    /\ Len(log) = 8
    /\ log[4].b # 0

----------------------------------------------------------------------------
(* C10 *)

\* C10: set_auto_sleep_time(seconds) makes exactly one register write, of
\* the byte max(1, min(255, seconds)) to 0xF9; clamping twice is clamping
\* once.
C10_SleepTimeClamped ==
    /\ Returned("set_auto_sleep_time")
          => \E status \in Statuses :
                Untag(log) = WriteTrace(249, Max(1, Min(255, arg)), status)
    /\ \A seconds \in SecondsInputs :
          clamp_seconds(clamp_seconds(seconds)) = clamp_seconds(seconds)

\* an input below 1 was written as 1
C10_Witness ==
    /\ Returned("set_auto_sleep_time")
    /\ arg < 1
    /\ log[3].a = 1

----------------------------------------------------------------------------
(* C11 *)

\* Bitwise AND of two naturals
RECURSIVE BitAnd(_, _)
BitAnd(a, b) ==
    IF a = 0 \/ b = 0 THEN 0
    ELSE ((a % 2) * (b % 2)) + 2 * BitAnd(a \div 2, b \div 2)

ShiftLeft(a, n) == a * (2 ^ n)

\* The bytes a successful register read received, in order
BytesRead(l) ==
    LET reads == SelectSeq(l, LAMBDA e : e.op = "read")
    IN  [i \in DOMAIN reads |-> reads[i].a]

\* The decode of a packet is complete and available() has not yet been
\* followed by another call
Decoded == lastOp = "available" /\ (pc = 229 \/ (pc = 0 /\ ret = "true"))

\* C11: once a packet b[0..5] has been read successfully and decoded,
\* x = ((b[2] & 0x0F) << 8) + b[3] and y = ((b[4] & 0x0F) << 8) + b[5],
\* each from its own two bytes, gestureID = b[0] and points = b[1].
C11_DecodeFormula ==
    (Decoded /\ ~TransportFailed(log)) =>
        LET b == BytesRead(log)
        IN  /\ Len(b) = 6
            /\ data.x = ShiftLeft(BitAnd(b[3], 15), 8) + b[4]
            /\ data.y = ShiftLeft(BitAnd(b[5], 15), 8) + b[6]
            /\ data.gestureID = b[1]
            /\ data.points = b[2]

\* A packet with every coordinate bit set in x, the upper nibble of b[4]
\* set and an unlisted gesture code has been decoded
C11_Witness ==
    /\ Returned("available")
    /\ ret = "true"
    /\ BytesRead(log) = << 255, 1, 255, 255, 241, 7 >>
    /\ Five(data) = << 255, 1, 3, 4095, 263 >>

----------------------------------------------------------------------------
(* C12 *)

\* The fixed label of every listed gesture code
LabelOf ==
    (NONE :> "NONE") @@ (SWIPE_UP :> "SWIPE UP") @@ (SWIPE_DOWN :> "SWIPE DOWN")
    @@ (SWIPE_LEFT :> "SWIPE LEFT") @@ (SWIPE_RIGHT :> "SWIPE RIGHT")
    @@ (SINGLE_CLICK :> "SINGLE CLICK") @@ (DOUBLE_CLICK :> "DOUBLE CLICK")
    @@ (LONG_PRESS :> "LONG PRESS")

\* C12: gesture() returns the fixed label of the stored gestureID, "UNKNOWN"
\* for every byte that is no listed code; it makes no environment call and
\* changes neither the TouchEvent nor the pending flag.
C12_GestureNameTotal ==
    [][(lastOp # "gesture" /\ lastOp' = "gesture") =>
          /\ ret' = IF data.gestureID \in DOMAIN LabelOf
                    THEN LabelOf[data.gestureID]
                    ELSE "UNKNOWN"
          /\ log' = << >>
          /\ pc' = 0
          /\ data' = data
          /\ _event_available' = _event_available]_vars

\* gesture() has labelled the stored byte 0xFF
C12_Witness ==
    /\ Returned("gesture")
    /\ data.gestureID = 255
    /\ ret = "UNKNOWN"
    /\ log = << >>

----------------------------------------------------------------------------
(* C13 *)

\* C13: each simple configuration method makes exactly one single-byte
\* register write and no other environment call: set_motion_mask(m) writes m
\* to 0xEC, set_irq_control(m) writes m to 0xFA, enable_double_click writes
\* 0x01 to 0xEC (and nothing to 0xFA), disable_auto_sleep writes 0xFE to
\* 0xFE, enable_auto_sleep writes 0x00 to 0xFE.
C13_OneWritePerConfigOp ==
    /\ Returned("set_motion_mask") =>
            \E s \in Statuses : Untag(log) = WriteTrace(236, arg, s)
    /\ Returned("set_irq_control") =>
            \E s \in Statuses : Untag(log) = WriteTrace(250, arg, s)
    /\ Returned("enable_double_click") =>
            /\ \E s \in Statuses : Untag(log) = WriteTrace(236, 1, s)
            /\ \A i \in DOMAIN log : ~(log[i].op = "write" /\ log[i].a = 250)
    /\ Returned("disable_auto_sleep") =>
            \E s \in Statuses : Untag(log) = WriteTrace(254, 254, s)
    /\ Returned("enable_auto_sleep") =>
            \E s \in Statuses : Untag(log) = WriteTrace(254, 0, s)

\* enable_double_click has returned after its one write, with the handler
\* attached and an edge pending
C13_Witness ==
    /\ Returned("enable_double_click")
    /\ Untag(log) = WriteTrace(236, 1, 0)
    /\ _event_available

----------------------------------------------------------------------------
(* C14 *)

IsPrefix(a, b) == Len(a) <= Len(b) /\ a = SubSeq(b, 1, Len(a))

\* Reset low, 5 ms, reset high, 50 ms, then one write of 0x03 to 0xA5
SleepTrace(status) ==
    << << "digitalWrite", pins.rst, LOW >>, << "delay", 5, 0 >>,
       << "digitalWrite", pins.rst, HIGH >>, << "delay", 50, 0 >> >>
    \o WriteTrace(165, 3, status)

\* C14: sleep() drives reset low, waits 5 ms, drives it high, waits 50 ms
\* and then makes exactly one write of 0x03 to register 0xA5; at every point
\* of the call the trace is a prefix of that sequence, so the standby write
\* never precedes the end of the pulse and nothing is read back.
C14_SleepOrder ==
    lastOp = "sleep" =>
        \E s \in Statuses :
            /\ IsPrefix(Untag(log), SleepTrace(s))
            /\ pc = 0 => Untag(log) = SleepTrace(s)

\* sleep() has returned after a standby write the chip acknowledged
C14_Witness ==
    /\ Returned("sleep")
    /\ Len(log) = 8
    /\ Untag(log) = SleepTrace(0)

----------------------------------------------------------------------------
(* C15 *)

\* C15: the available() call that follows one whose decode read failed
\* depends on the pending flag alone.  It returns true exactly when the
\* handler ran after the failed call cleared the flag; otherwise it returns
\* false and makes no environment call.
C15_FailureNotRemembered ==
    (lastOp = "available" /\ prevFailed) =>
        /\ pc # 0 => entry >= 1
        /\ pc = 0 => (ret = "true" <=> entry >= 1)
        /\ (pc = 0 /\ entry = 0) => (ret = "false" /\ log = << >>)

\* The poll after a failed decode found no new edge and returned false
C15_Witness ==
    /\ Returned("available")
    /\ prevFailed
    /\ entry = 0
    /\ ret = "false"
    /\ log = << >>

----------------------------------------------------------------------------
(* C16 *)

\* The event types spec.md section 3 enumerates: Down, Up, Contact
EventTypes == {0, 1, 2}

\* C16: in every reachable state, whatever bytes the packets held, x and y
\* lie in 0..4095 and the event type is one of the three enumerated values.
C16_FieldRanges ==
    /\ data.x \in 0..4095
    /\ data.y \in 0..4095
    /\ data.event \in EventTypes

----------------------------------------------------------------------------
(* C17 *)

\* The lines that call i2c_read, with the register, the length and the
\* destination buffer of each
ReadLines == {56, 205, 207}

ReadReg(line) == CASE line = 56 -> 1 [] line = 205 -> 21 [] line = 207 -> 167

ReadLength(line) == CASE line = 56 -> 6 [] line = 205 -> 1 [] line = 207 -> 3

Destination(line, d, raw) ==
    CASE line = 56 -> raw
      [] line = 205 -> << d.version >>
      [] line = 207 -> d.versionInfo

\* C17: a register read whose address phase reports a nonzero status returns
\* a failure result, makes no read request, does not retry and writes no
\* byte to the destination; with status zero it returns success after
\* storing exactly length bytes, in the order received, at the front of the
\* destination.
C17_ReadRegisters ==
    [][(pc \in ReadLines /\ pc' # pc) =>
          LET new == Untag(SubSeq(log', Len(log) + 1, Len(log')))
              before == Destination(pc, data, data_raw)
              after == Destination(pc, data', data_raw')
              n == ReadLength(pc)
          IN  /\ Len(new) >= 3
              /\ new[1] = << "beginTransmission", 0, 0 >>
              /\ new[2] = << "write", ReadReg(pc), 0 >>
              /\ new[3][1] = "endTransmission"
              /\ IF new[3][3] # 0
                 THEN /\ i2cRet' # 0
                      /\ Len(new) = 3
                      /\ after = before
                 ELSE /\ i2cRet' = 0
                      /\ Len(new) = 4 + n
                      /\ new[4] = << "requestFrom", n, 1 >>
                      /\ Len(after) = Len(before)
                      /\ \A i \in 1..n :
                            new[4 + i][1] = "read" /\ after[i] = new[4 + i][2]
                      /\ \A i \in (n + 1)..Len(before) : after[i] = before[i]]_vars

\* The decode read has just failed in its address phase: failure returned,
\* three bus calls, data_raw as it was declared
C17_Witness ==
    /\ pc = 58
    /\ i2cRet = 255
    /\ Len(log) = 3
    /\ log[3].op = "endTransmission"
    /\ log[3].b # 0
    /\ data_raw \in Garbage

----------------------------------------------------------------------------
(* C18 *)

\* The methods that are one single-byte register write
SingleWriteOps ==
    {"enable_double_click", "set_motion_mask", "set_irq_control",
     "disable_auto_sleep", "enable_auto_sleep", "set_auto_sleep_time"}

\* The trace opens one transaction, sends a register address and one
\* payload byte and closes once, the call failing exactly when the close
\* reported a nonzero status
OneWriteCycle(l) ==
    /\ Len(l) = 4
    /\ l[1].op = "beginTransmission"
    /\ l[2].op = "write"
    /\ l[3].op = "write"
    /\ l[4].op = "endTransmission"
    /\ i2cRet # 0 <=> l[4].b # 0

\* No read request follows a close that released the bus (stop sent)
AddressKeptOpen(l) ==
    \A i \in DOMAIN l :
        l[i].op = "requestFrom" =>
            \A j \in 1..(i - 1) : ~(l[j].op = "endTransmission" /\ l[j].a = 1)

\* Every single-write method, on return, made one open/close cycle
WritesAreOneCycle ==
    \A op \in SingleWriteOps : Returned(op) => OneWriteCycle(log)

\* C18: every register write is one open/close cycle (open, address,
\* payload, close; failing iff the close status is nonzero), and every
\* register read sends the address with the transaction kept open, no stop
\* before the read request.
C18_OneBusCyclePerCall ==
    /\ WritesAreOneCycle
    /\ AddressKeptOpen(log)

----------------------------------------------------------------------------
(* C19 *)

\* The two firmware fields of a TouchEvent
Versions(d) == << d.version, d.versionInfo >>

\* C19: a step of begin() leaves gestureID, points, event, x, y unchanged;
\* a step of available() (the decode) leaves version and versionInfo
\* unchanged; a step of a configuration method, of sleep(), of gesture() or
\* of attachUserInterrupt() leaves the whole TouchEvent and the pending flag
\* unchanged.
C19_FieldOwnership ==
    [][(isrPc = 0 /\ isrPc' = 0) =>
          /\ lastOp' = "begin" => Five(data') = Five(data)
          /\ lastOp' = "available" => Versions(data') = Versions(data)
          /\ lastOp' \in ConfigOps \cup {"gesture", "attachUserInterrupt"} =>
                (data' = data /\ _event_available' = _event_available)]_vars

\* sleep() has returned with an event pending, the fields of the last
\* decode and the version fields of begin() all in place
C19_Witness ==
    /\ Returned("sleep")
    /\ _event_available
    /\ Five(data) = DecodeFive(PacketOf(1))
    /\ Versions(data) = << ChipFirmware.version, ChipFirmware.info >>

----------------------------------------------------------------------------
(* C20 *)

\* C20: no edge is lost when the handler interleaves with available(): the
\* pending flag is never false while there is an edge that no decode read
\* has started after, also when the handler preempts available() after the
\* test of the flag or after the decode read and before the flag is cleared.
C20_NoEdgeLost == unserved => _event_available

====
